---- MODULE Spec2Model ----
(***************************************************************************)
(* RAG chatbot: the vector store manager (vector_store.py), the            *)
(* conversational chain with its memory (rag_chain.py), the REST handlers  *)
(* that drive them (app.py) and the LLM configuration loader               *)
(* (llm_loader.py).                                                        *)
(*                                                                         *)
(* The handlers of app.py are `async def` bodies without an await, so each *)
(* runs to completion on the event loop: one action per handler.           *)
(***************************************************************************)
EXTENDS Integers, Sequences, FiniteSets, TLC

(***************************************************************************)
(* Bounds of the model.                                                    *)
(***************************************************************************)
MaxTurns == 2        \* chat turns kept in memory before the model stops chatting
MaxColl == 3         \* chunks in the persisted collection

(***************************************************************************)
(* Program constants.                                                      *)
(***************************************************************************)
max_tokens_limit == 3000   \* RAGChatbot.__init__ default
search_k == 4              \* search_kwargs={"k": 4}

Questions == {"q", "long q"}
Answers == {"a"}

\* The chunk lists that process_document yields in the model: none (a file without
\* text), one chunk, two chunks.
DocumentLists == {<<>>, <<"c1">>, <<"c2", "c1">>}

NoDocsAnswer == "I don't have any documents to answer questions from. Please upload documents first."
ErrorAnswer == "An error occurred: ..."

\* last.before: the number of messages in memory when the operation began.

\* Token count of a message: "long q" stands for a question of 1600 tokens.
Tokens(content) == IF content = "long q" THEN 1600 ELSE 1

VARIABLES
    dirExists,      \* os.path.exists(persist_directory)
    collGen,        \* the collection "rag_documents" in the database: 0 = none, else its identity
    collection,     \* the chunks of that collection, in insertion order
    _vector_store,  \* vector_store._vector_store is not None
    vectorstore,    \* VectorStoreManager.vectorstore: 0 = None, else the collection its handle is bound to
    _chatbot,       \* rag_chain._chatbot is not None
    chain,          \* RAGChatbot.chain: id 0 = None, else the chain object and its retriever's collection
    memory,         \* RAGChatbot.memory.chat_memory.messages
    everAdded,      \* history: some chunk has been added to the store at some time
    last,           \* the last operation and what it returned
    config,         \* config/llm.json as LLMConfigLoader._load_config reads it
    environ,        \* what the loader meets outside: os.environ, the modules, the providers
    _llm_loader,    \* llm_loader._llm_loader is not None
    llm_instances,  \* LLMConfigLoader.llm_instances: per name 0 = absent, else the instance
    constructions,  \* history: per name, how many times its class returned an instance
    lastL,          \* the last loader operation and what it returned
    made,           \* history: per module global, how many objects were constructed for it in this process
    running,        \* the request whose handler the event loop is executing, 0 for none
    task,           \* per request: where its handler stands and the locals it holds
    call,           \* a function of the program applied on its own: which one, and its arguments
    result          \* what that call returned, once it has

chatVars == <<dirExists, collGen, collection, _vector_store, vectorstore, _chatbot,
              chain, memory, everAdded, last>>

loaderVars == <<config, environ, _llm_loader, llm_instances, constructions, lastL>>

pureVars == <<call, result>>

loopVars == <<running, task>>

vars == <<chatVars, loaderVars, pureVars, made, loopVars>>

\* Nothing has been constructed yet.
NoneMade == [_chatbot |-> 0, _vector_store |-> 0, _llm_loader |-> 0]

\* No function is being applied on its own.
PureIdle == call = [fn |-> ""] /\ result = [done |-> FALSE]

NoChain == [id |-> 0, retriever |-> 0, memory |-> 0]

\* The requests a client has sent at the same time.
Requests == {1, 2}

\* A request whose handler has not begun.
Pending == [pc |-> "pending", question |-> "", answer |-> "", seen |-> <<>>]

\* The event loop executes no handler.
LoopIdle == running = 0 /\ task = [r \in Requests |-> Pending]

\* The program state as one record, so that the methods compose as functions.
W == [dirExists |-> dirExists, collGen |-> collGen, collection |-> collection,
      _vector_store |-> _vector_store, vectorstore |-> vectorstore,
      _chatbot |-> _chatbot, chain |-> chain, memory |-> memory,
      everAdded |-> everAdded, made |-> made]

SetChat(w) ==
    /\ dirExists' = w.dirExists
    /\ collGen' = w.collGen
    /\ collection' = w.collection
    /\ _vector_store' = w._vector_store
    /\ vectorstore' = w.vectorstore
    /\ _chatbot' = w._chatbot
    /\ chain' = w.chain
    /\ memory' = w.memory
    /\ everAdded' = w.everAdded

Apply(w) ==
    /\ SetChat(w)
    /\ made' = w.made
    /\ UNCHANGED <<loaderVars, pureVars, loopVars>>

Take(s, n) == SubSeq(s, 1, IF Len(s) < n THEN Len(s) ELSE n)

(***************************************************************************)
(* vector_store.py                                                         *)
(***************************************************************************)

\* A collection created now is a new object of the database: a handle that a
\* chain's retriever still holds on a deleted collection is not a handle on it.
NewCollection(w) == IF w.chain.retriever = 1 THEN 2 ELSE 1

\* Chroma(persist_directory=...) opens the database and gets or creates the
\* collection; with no directory the store stays None until the first addition.
_initialize_vectorstore(w) ==
    IF w.dirExists
    THEN IF w.collGen = 0
         THEN [w EXCEPT !.collGen = NewCollection(w), !.collection = <<>>,
                        !.vectorstore = NewCollection(w)]
         ELSE [w EXCEPT !.vectorstore = w.collGen]
    ELSE [w EXCEPT !.vectorstore = 0]

\* Mutant: the global is not consulted, every call constructs a manager.
get_vector_store_always_constructs(w) ==
    _initialize_vectorstore([w EXCEPT !._vector_store = TRUE,
                                      !.made._vector_store = @ + 1])

get_vector_store(w) ==
    IF w._vector_store THEN w
    ELSE _initialize_vectorstore([w EXCEPT !._vector_store = TRUE,
                                           !.made._vector_store = @ + 1])

\* Mutant: documents added to an existing store replace its content.
add_documents_replaces(w, documents, embedOk) ==
    IF documents = <<>> THEN [w |-> w, ret |-> <<>>, raised |-> FALSE]
    ELSE IF ~embedOk THEN [w |-> w, ret |-> <<>>, raised |-> TRUE]
    ELSE [w |-> [w EXCEPT !.dirExists = TRUE,
                          !.collGen = IF @ = 0 THEN NewCollection(w) ELSE @,
                          !.collection = documents,
                          !.vectorstore = IF w.collGen = 0 THEN NewCollection(w)
                                          ELSE w.collGen,
                          !.everAdded = TRUE],
          ret |-> <<>>, raised |-> FALSE]

\* Mutant: an empty list is handed to the store like any other.
add_documents_no_empty_check(w, documents, embedOk) ==
    IF w.vectorstore = 0
    THEN LET g == IF w.collGen = 0 THEN NewCollection(w) ELSE w.collGen
         IN [w |-> [w EXCEPT !.dirExists = TRUE, !.collGen = g,
                             !.collection = (IF w.collGen = 0 THEN <<>> ELSE @) \o documents,
                             !.vectorstore = IF embedOk THEN g ELSE 0],
             ret |-> <<>>, raised |-> ~embedOk]
    ELSE [w |-> [w EXCEPT !.collection = IF embedOk THEN @ \o documents ELSE @],
          ret |-> <<>>, raised |-> ~embedOk]

\* embedOk: the embedding of the documents succeeds (a provider failure raises).
\* Chroma.from_documents creates the directory and the collection before it embeds.
add_documents(w, documents, embedOk) ==
    IF documents = <<>> THEN [w |-> w, ret |-> <<>>, raised |-> FALSE]
    ELSE IF w.vectorstore = 0
    THEN LET g == IF w.collGen = 0 THEN NewCollection(w) ELSE w.collGen
             base == IF w.collGen = 0 THEN <<>> ELSE w.collection
             opened == [w EXCEPT !.dirExists = TRUE, !.collGen = g, !.collection = base]
         IN IF embedOk
            THEN [w |-> [opened EXCEPT !.collection = base \o documents,
                                       !.vectorstore = g, !.everAdded = TRUE],
                  ret |-> <<>>, raised |-> FALSE]
            ELSE [w |-> opened, ret |-> <<>>, raised |-> TRUE]
    ELSE IF embedOk
         THEN [w |-> [w EXCEPT !.collection = @ \o documents, !.everAdded = TRUE],
               ret |-> [i \in 1..Len(documents) |-> Len(w.collection) + i],
               raised |-> FALSE]
         ELSE [w |-> w, ret |-> <<>>, raised |-> TRUE]

delete_collection(w) ==
    IF w.vectorstore # 0
    THEN [w EXCEPT !.collGen = 0, !.collection = <<>>, !.vectorstore = 0]
    ELSE w

get_collection_count(w) == IF w.vectorstore = 0 THEN 0 ELSE Len(w.collection)

\* A metadata filter: none, one that selects the chunks of one source, or one
\* the database rejects.
Filters == {"None", "where", "malformed"}

Matches(doc) == doc = "c1"

(* What the database does with a query on an initialized store: the query is
   embedded (embedOk: the provider answers), the filter and k are validated
   (k must be positive), and up to k matching chunks come back; a build that
   is strict raises when k exceeds the number of chunks it holds. *)
SearchOutcomes == [embedOk : BOOLEAN, strict : BOOLEAN]

chroma_search(w, k, filter, o) ==
    IF ~o.embedOk \/ filter = "malformed" \/ k <= 0 \/ (o.strict /\ k > Len(w.collection))
    THEN [ret |-> <<>>, raised |-> TRUE]
    ELSE [ret |-> Take(IF filter = "where" THEN SelectSeq(w.collection, Matches)
                       ELSE w.collection, k),
          raised |-> FALSE]

\* similarity_search: [] when vectorstore is None, else the store's answer.
similarity_search(w, k, filter, o) ==
    IF w.vectorstore = 0 THEN [ret |-> <<>>, raised |-> FALSE]
    ELSE chroma_search(w, k, filter, o)

\* similarity_search_with_score: the same, as (document, score) pairs.
similarity_search_with_score(w, k, filter, o) ==
    IF w.vectorstore = 0 THEN [ret |-> <<>>, raised |-> FALSE]
    ELSE LET r == chroma_search(w, k, filter, o)
         IN [ret |-> [i \in 1..Len(r.ret) |-> <<r.ret[i], "score">>], raised |-> r.raised]

(***************************************************************************)
(* rag_chain.py                                                            *)
(***************************************************************************)

\* A chain built now is a new object, distinct from the one it replaces.
NewChain(w) == IF w.chain.id = 1 THEN 2 ELSE 1

\* self.memory: the ConversationBufferMemory that RAGChatbot() made, the memory of
\* the n-th chatbot constructed in the process; no other statement assigns it.
self_memory(w) == w.made._chatbot

\* Mutant: the except branch leaves the old chain in place.
_initialize_chain_keeps_chain(w) ==
    IF w.vectorstore = 0
    THEN w
    ELSE [w EXCEPT !.chain = [id |-> NewChain(w), retriever |-> w.vectorstore,
                              memory |-> self_memory(w)]]

\* Mutant: every chain is built over a new, empty memory that replaces self.memory.
_initialize_chain_fresh_memory(w) ==
    IF w.vectorstore = 0
    THEN [w EXCEPT !.chain = NoChain]
    ELSE [w EXCEPT !.chain = [id |-> NewChain(w), retriever |-> w.vectorstore,
                              memory |-> self_memory(w) + 1],
                   !.memory = <<>>]

\* get_retriever raises on a None store; the except branch sets chain = None.
\* from_llm(..., memory=self.memory): the chain holds the memory of the chatbot.
_initialize_chain(w) ==
    IF w.vectorstore = 0
    THEN [w EXCEPT !.chain = NoChain]
    ELSE [w EXCEPT !.chain = [id |-> NewChain(w), retriever |-> w.vectorstore,
                              memory |-> self_memory(w)]]

reinitialize_chain(w) == _initialize_chain(w)

\* RAGChatbot(): llmOk says whether get_manager_llm() returns (it raises otherwise,
\* before anything else is built).
get_chatbot(w, llmOk) ==
    IF w._chatbot THEN [w |-> w, raised |-> FALSE]
    ELSE IF ~llmOk THEN [w |-> w, raised |-> TRUE]
    ELSE LET w1 == get_vector_store(w)
         IN [w |-> _initialize_chain([w1 EXCEPT !._chatbot = TRUE, !.memory = <<>>,
                                                !.chain = NoChain,
                                                !.made._chatbot = @ + 1]),
             raised |-> FALSE]

\* Mutant: the answer is saved before the question.
save_context_answer_first(mem, question, answer) ==
    mem \o <<[type |-> "ai", content |-> answer],
             [type |-> "human", content |-> question]>>

\* ConversationBufferMemory.save_context: the question, then the answer. The buffer
\* memory has no token limit of its own: the max_token_limit keyword is not one of
\* its fields and nothing is ever trimmed.
save_context(mem, question, answer) ==
    mem \o <<[type |-> "human", content |-> question],
             [type |-> "ai", content |-> answer]>>

\* The outcomes of one chain invocation: where it fails, if it does, and what the
\* LLM answers.
Outcomes == [fail : {"none", "condense", "retrieve", "answer"}, answer : Answers]

\* With a history the chain first asks the LLM to condense the question; the
\* retriever of a chain whose collection was deleted cannot retrieve while no
\* collection of that name exists.
Possible(w, o) ==
    /\ (o.fail = "condense" => w.memory # <<>>)
    /\ (w.chain.retriever # w.collGen /\ w.collGen = 0
            => o.fail \in {"condense", "retrieve"})

\* Mutant: a failed invocation saves the question with the error as the answer.
invoke_saves_failed_turn(w, question, o) ==
    LET llm == (w.memory # <<>>) \/ o.fail \in {"none", "answer"}
    IN IF o.fail = "none"
       THEN [w |-> [w EXCEPT !.memory = save_context(@, question, o.answer)],
             answer |-> o.answer,
             source_documents |-> Take(w.collection, search_k),
             llm |-> llm, raised |-> FALSE]
       ELSE [w |-> [w EXCEPT !.memory = save_context(@, question, ErrorAnswer)],
             answer |-> "", source_documents |-> <<>>,
             llm |-> llm, raised |-> TRUE]

\* self.chain.invoke({"question": question}): condense (LLM), retrieve, answer
\* (LLM), then save the turn to memory.
invoke(w, question, o) ==
    LET llm == (w.memory # <<>>) \/ o.fail \in {"none", "answer"}
    IN IF o.fail = "none"
       THEN [w |-> IF w.chain.memory = self_memory(w)
                   THEN [w EXCEPT !.memory = save_context(@, question, o.answer)]
                   ELSE w,
             answer |-> o.answer,
             source_documents |-> Take(w.collection, search_k),
             llm |-> llm, raised |-> FALSE]
       ELSE [w |-> w, answer |-> "", source_documents |-> <<>>,
             llm |-> llm, raised |-> TRUE]

\* Mutant: a failed invocation drops the chain.
chat_drops_chain(w, question, o) ==
    LET w1 == IF w.chain.id = 0 THEN _initialize_chain(w) ELSE w
    IN IF w1.chain.id = 0
       THEN [w |-> w1, answer |-> NoDocsAnswer, source_documents |-> <<>>,
             llm |-> FALSE, raised |-> FALSE, kind |-> "no_documents"]
       ELSE LET r == invoke(w1, question, o)
            IN IF r.raised
               THEN [w |-> [r.w EXCEPT !.chain = NoChain], answer |-> ErrorAnswer,
                     source_documents |-> <<>>,
                     llm |-> r.llm, raised |-> FALSE, kind |-> "error"]
               ELSE [w |-> r.w, answer |-> r.answer,
                     source_documents |-> r.source_documents,
                     llm |-> r.llm, raised |-> FALSE, kind |-> "answered"]

chat(w, question, o) ==
    LET w1 == IF w.chain.id = 0 THEN _initialize_chain(w) ELSE w
    IN IF w1.chain.id = 0
       THEN [w |-> w1, answer |-> NoDocsAnswer, source_documents |-> <<>>,
             llm |-> FALSE, raised |-> FALSE, kind |-> "no_documents"]
       ELSE LET r == invoke(w1, question, o)
            IN IF r.raised
               THEN [w |-> r.w, answer |-> ErrorAnswer, source_documents |-> <<>>,
                     llm |-> r.llm, raised |-> FALSE, kind |-> "error"]
               ELSE [w |-> r.w, answer |-> r.answer,
                     source_documents |-> r.source_documents,
                     llm |-> r.llm, raised |-> FALSE, kind |-> "answered"]

\* Mutant: the message types are renamed to user and assistant.
get_chat_history_renamed(w) ==
    [i \in 1..Len(w.memory) |->
        [role |-> IF w.memory[i].type = "human" THEN "user" ELSE "assistant",
         content |-> w.memory[i].content]]

\* {"role": msg.type, "content": msg.content} for each message, in order.
get_chat_history(w) ==
    [i \in 1..Len(w.memory) |->
        [role |-> w.memory[i].type, content |-> w.memory[i].content]]

\* get_relevant_documents(query, k): the manager's similarity_search_with_score.
get_relevant_documents(w, k, o) == similarity_search_with_score(w, k, "None", o)

\* Mutant: only the last turn is dropped.
clear_memory_last_turn(w) ==
    [w EXCEPT !.memory = IF Len(@) >= 2 THEN SubSeq(@, 1, Len(@) - 2) ELSE <<>>]

\* Mutant: clearing also rebuilds the chain.
clear_memory_rebuilds(w) == _initialize_chain([w EXCEPT !.memory = <<>>])

clear_memory(w) == [w EXCEPT !.memory = <<>>]

add_documents_to_store(w, documents, embedOk) ==
    LET a == add_documents(w, documents, embedOk)
    IN IF a.raised THEN a
       ELSE [w |-> reinitialize_chain(a.w), ret |-> <<>>, raised |-> FALSE]

(***************************************************************************)
(* llm_loader.py                                                           *)
(***************************************************************************)

\* The registry of the model has two entries, in this order in the file; a caller
\* may also ask for a name that is not in the registry.
Names == {"a", "b"}
NameOrder == <<"a", "b">>
Requested == Names \cup {"ghost"}

\* The entries of the model. load_on_init is a string, "absent" when the key is
\* missing; has_import: import_module and import_class are both given; uses_env:
\* the constructor arguments hold an ENV:<VAR> reference.
Entries ==
    {[load_on_init |-> "True",   has_import |-> TRUE,  uses_env |-> TRUE],
     [load_on_init |-> "true",   has_import |-> TRUE,  uses_env |-> FALSE],
     [load_on_init |-> "False",  has_import |-> TRUE,  uses_env |-> TRUE],
     [load_on_init |-> "absent", has_import |-> TRUE,  uses_env |-> FALSE],
     [load_on_init |-> "True",   has_import |-> FALSE, uses_env |-> FALSE]}

\* managerLLM: a registry name, a name outside the registry, or "" (not given).
Configs == [llms : [Names -> Entries], managerLLM : {"a", "ghost", ""}]

\* envSet: the referenced environment variable is set; fault: per name, whether
\* the module and class resolve ("import" if import_module raises ImportError or
\* getattr raises AttributeError, "import_raises" if importing the module raises
\* anything else) and the class constructs ("ctor" if it raises).
Environs == [envSet : BOOLEAN,
             fault : [Names -> {"none", "import", "import_raises", "ctor"}]]

\* Mutant: the flag is compared as written.
Lower_identity(str) == str

\* str.lower() on the flag values of the model.
Lower(str) ==
    CASE str = "True" -> "true"
      [] str = "False" -> "false"
      [] str = "PDF" -> "pdf"
      [] str = "Txt" -> "txt"
      [] OTHER -> str

\* llm_config.get("load_on_init", "False").lower() == "true"
load_on_init(entry) ==
    Lower(IF entry.load_on_init = "absent" THEN "False" ELSE entry.load_on_init) = "true"

(* Constructor arguments. A value is tagged with its JSON type. A string is kept
   as its pieces between the occurrences of "ENV:", which is all the resolution
   looks at: "plain" is <<"plain">>, "ENV:FOO" is <<"", "FOO">>, "ENV:A_ENV:B" is
   <<"", "A_", "B">>, "xENV:FOO" is <<"x", "FOO">>. The name of an environment
   variable is such a sequence too. *)
Str(pieces) == [t |-> "str", v |-> pieces]
Dict(f) == [t |-> "dict", v |-> f]
ConfigError(name) == [t |-> "ValueError", v |-> name]

VarNames == {<<"FOO">>, <<"A_">>, <<"A_", "B">>}

\* os.environ: each variable of the model is unset or holds its own value.
Unset == Str(<<>>)
OsEnvirons == [VarNames -> {Unset}] \cup
              {[n \in VarNames |-> IF n \in S THEN Str(<<"value of">> \o n) ELSE Unset] :
                  S \in SUBSET VarNames}

getenv(env, name) == IF name \in VarNames THEN env[name] ELSE Unset

\* value.startswith("ENV:"); value.split("ENV:")[1] is the piece after the first
\* "ENV:", up to the next one.
_resolve_env_value(env, value) ==
    IF value.t = "str" /\ Len(value.v) >= 2 /\ value.v[1] = ""
    THEN IF getenv(env, <<value.v[2]>>) = Unset
         THEN ConfigError(<<value.v[2]>>)
         ELSE getenv(env, <<value.v[2]>>)
    ELSE value

IsError(value) == value.t = "ValueError"

\* The keys of a dict in the order of the file.
KeyOrder(f) == IF DOMAIN f = {"x", "y"} THEN <<"x", "y">> ELSE <<"k">>

\* for key, value in config.items(): the first value that fails to resolve raises.
RECURSIVE _resolve_config_values(_, _)
_resolve_config_values(env, cfg) ==
    LET resolved == [key \in DOMAIN cfg.v |->
                        IF cfg.v[key].t = "dict"
                        THEN _resolve_config_values(env, cfg.v[key])
                        ELSE IF cfg.v[key].t = "str"
                        THEN _resolve_env_value(env, cfg.v[key])
                        ELSE cfg.v[key]]
        order == KeyOrder(cfg.v)
        failed == {i \in 1..Len(order) : IsError(resolved[order[i]])}
    IN IF failed = {} THEN Dict(resolved)
       ELSE resolved[order[CHOOSE i \in failed : \A j \in failed : i <= j]]

Returned(L, ret, hit) ==
    [L |-> L, ret |-> ret, raised |-> "", hit |-> hit]

Raised(L, error) ==
    [L |-> L, ret |-> 0, raised |-> error, hit |-> FALSE]

\* The class constructs an instance: the next one of that name.
Construct(L, llm_name) ==
    LET n == L.constructions[llm_name] + 1
    IN Returned([L EXCEPT !.llm_instances[llm_name] = n,
                          !.constructions[llm_name] = n], n, FALSE)

\* Mutant: the cache is not consulted.
load_llm_no_cache(L, llm_name) ==
    IF llm_name \notin Names THEN Raised(L, "ValueError")
    ELSE IF ~config.llms[llm_name].has_import THEN Raised(L, "ValueError")
    ELSE IF environ.fault[llm_name] = "import" THEN Raised(L, "ImportError")
    ELSE IF environ.fault[llm_name] = "import_raises" THEN Raised(L, "Exception")
    ELSE IF config.llms[llm_name].uses_env /\ ~environ.envSet THEN Raised(L, "ValueError")
    ELSE IF environ.fault[llm_name] = "ctor" THEN Raised(L, "Exception")
    ELSE Construct(L, llm_name)

\* Mutant: a constructor that raised is remembered, and the name is not tried again.
load_llm_remembers_failure(L, llm_name) ==
    IF llm_name \in Names /\ L.llm_instances[llm_name] # 0
    THEN IF L.llm_instances[llm_name] = -1 THEN Raised(L, "Exception")
         ELSE Returned(L, L.llm_instances[llm_name], TRUE)
    ELSE IF llm_name \notin Names THEN Raised(L, "ValueError")
    ELSE IF ~config.llms[llm_name].has_import THEN Raised(L, "ValueError")
    ELSE IF environ.fault[llm_name] = "import" THEN Raised(L, "ImportError")
    ELSE IF environ.fault[llm_name] = "import_raises" THEN Raised(L, "Exception")
    ELSE IF config.llms[llm_name].uses_env /\ ~environ.envSet THEN Raised(L, "ValueError")
    ELSE IF environ.fault[llm_name] = "ctor"
         THEN Raised([L EXCEPT !.llm_instances[llm_name] = -1], "Exception")
    ELSE Construct(L, llm_name)

load_llm(L, llm_name) ==
    IF llm_name \in Names /\ L.llm_instances[llm_name] # 0
    THEN Returned(L, L.llm_instances[llm_name], TRUE)
    ELSE IF llm_name \notin Names THEN Raised(L, "ValueError")
    ELSE IF ~config.llms[llm_name].has_import THEN Raised(L, "ValueError")
    ELSE IF environ.fault[llm_name] = "import" THEN Raised(L, "ImportError")
    ELSE IF environ.fault[llm_name] = "import_raises" THEN Raised(L, "Exception")
    ELSE IF config.llms[llm_name].uses_env /\ ~environ.envSet THEN Raised(L, "ValueError")
    ELSE IF environ.fault[llm_name] = "ctor" THEN Raised(L, "Exception")
    ELSE Construct(L, llm_name)

\* Mutant: the first failure ends the loop.
RECURSIVE _load_initial_llms_stops(_, _)
_load_initial_llms_stops(L, names) ==
    IF names = <<>> THEN L
    ELSE IF load_on_init(config.llms[Head(names)])
         THEN LET r == load_llm(L, Head(names))
              IN IF r.raised # "" THEN r.L
                 ELSE _load_initial_llms_stops(r.L, Tail(names))
         ELSE _load_initial_llms_stops(L, Tail(names))

\* for llm_name, llm_config in llms_config.items(): try load_llm, except print.
RECURSIVE _load_initial_llms(_, _)
_load_initial_llms(L, names) ==
    IF names = <<>> THEN L
    ELSE IF load_on_init(config.llms[Head(names)])
         THEN _load_initial_llms(load_llm(L, Head(names)).L, Tail(names))
         ELSE _load_initial_llms(L, Tail(names))

\* LLMConfigLoader(): llm_instances = {}, then the entries flagged for loading.
LLMConfigLoader(L) ==
    _load_initial_llms([L EXCEPT !._llm_loader = TRUE,
                                 !.llm_instances = [n \in Names |-> 0],
                                 !.made._llm_loader = @ + 1], NameOrder)

get_llm_loader(L) == IF L._llm_loader THEN L ELSE LLMConfigLoader(L)

get_manager_llm(L) ==
    IF config.managerLLM = "" THEN Raised(L, "ValueError")
    ELSE load_llm(L, config.managerLLM)

(***************************************************************************)
(* document_processor.py                                                   *)
(***************************************************************************)

DefaultChunkSize == 1000      \* os.getenv("CHUNK_SIZE", "1000")
DefaultChunkOverlap == 200    \* os.getenv("CHUNK_OVERLAP", "200")

\* An optional int argument: None, or the int passed.
None == [given |-> FALSE, v |-> 0]
Given(n) == [given |-> TRUE, v |-> n]

\* int(str) on the strings of the model; None for a string int() rejects.
int(str) ==
    CASE str = "1000" -> Given(DefaultChunkSize)
      [] str = "200" -> Given(DefaultChunkOverlap)
      [] str = "800" -> Given(800)
      [] str = "50" -> Given(50)
      [] OTHER -> None

\* os.getenv(name, default) with the variable unset ("") or set to a string.
getenv_default(value, default) == IF value = "" THEN default ELSE value

\* x or default: a falsy x, None or 0, gives the default.
or(x, default) == IF x.given /\ x.v # 0 THEN x ELSE default

(* DocumentProcessor(chunk_size, chunk_overlap): the two attributes, then the
   text splitter, whose constructor rejects an overlap larger than the chunk
   size. A default that is needed and does not parse raises before the
   attribute is assigned. *)
DocumentProcessor(chunk_size, chunk_overlap, env) ==
    LET size == or(chunk_size, int(getenv_default(env.CHUNK_SIZE, "1000")))
        overlap == or(chunk_overlap, int(getenv_default(env.CHUNK_OVERLAP, "200")))
    IN IF ~size.given
       THEN [raised |-> "ValueError", chunk_size |-> None, chunk_overlap |-> None]
       ELSE IF ~overlap.given
       THEN [raised |-> "ValueError", chunk_size |-> size, chunk_overlap |-> None]
       ELSE [raised |-> IF overlap.v > size.v THEN "ValueError" ELSE "",
             chunk_size |-> size, chunk_overlap |-> overlap]

\* self.loader_mapping: extension -> loader class, in the order of the dict.
\* Extensions are written without their leading dot.
SupportedTypes == <<"pdf", "docx", "doc", "html", "htm", "csv", "xlsx", "xls", "txt">>

loader_mapping ==
    [pdf |-> "PyPDFLoader", docx |-> "Docx2txtLoader", doc |-> "Docx2txtLoader",
     html |-> "UnstructuredHTMLLoader", htm |-> "UnstructuredHTMLLoader",
     csv |-> "CSVLoader", xlsx |-> "UnstructuredExcelLoader",
     xls |-> "UnstructuredExcelLoader", txt |-> "TextLoader"]

(* A file name is the sequence of its pieces between dots: "a.pdf" is
   <<"a", "pdf">>, "README" is <<"README">>, ".txt" is <<"", "txt">>, "data." is
   <<"data", "">>. Path(name).suffix is the last piece when there is a dot that
   is neither the first nor the last character of the name, else empty. *)
suffix(name) ==
    IF Len(name) >= 2 /\ name[Len(name)] # "" /\ ~(Len(name) = 2 /\ name[1] = "")
    THEN name[Len(name)]
    ELSE ""

\* An entry of the file system: a file with what its loader and the splitter
\* make of it, or a directory with its entries in the order the system lists them.
File(name, load, chunks) ==
    [kind |-> "file", name |-> name, dir |-> <<>>, exists |-> TRUE, load |-> load,
     chunks |-> chunks]
Directory(name, entries) == [kind |-> "dir", name |-> name, entries |-> entries]

(* A path is the sequence of its directory names and the file name after them.
   os.path.join(root, file) puts the file under root; os.path.basename(path)
   is the path of the name alone. *)
join(root, file) == [file EXCEPT !.dir = root]
file_path(file) == [dir |-> file.dir, name |-> file.name]
basename(path) == [dir |-> <<>>, name |-> path.name]

\* loader.load(): one document with the text of the file (here the pieces the
\* splitter will cut it into); the loader names the path it was given as source.
loader_load(file) ==
    <<[page_content |-> file.chunks, metadata |-> [source |-> file_path(file)]]>>

\* text_splitter.split_documents: each chunk carries a copy of the metadata of
\* the document it is cut from.
RECURSIVE split_documents(_)
split_documents(documents) ==
    IF documents = <<>> THEN <<>>
    ELSE [i \in 1..Len(Head(documents).page_content) |->
             [page_content |-> Head(documents).page_content[i],
              metadata |-> Head(documents).metadata]]
         \o split_documents(Tail(documents))

DocError(type, message) == [raised |-> type, message |-> message, chunks |-> <<>>]

\* Mutant: the extension is looked up as written.
get_loader_for_file_as_written(file) ==
    IF suffix(file.name) \notin DOMAIN loader_mapping
    THEN DocError("ValueError",
                  [text |-> "Unsupported file type", extension |-> suffix(file.name),
                   supported |-> SupportedTypes])
    ELSE [raised |-> "", loader |-> loader_mapping[suffix(file.name)]]

\* Path(file_path).suffix.lower() not in self.loader_mapping: ValueError naming
\* the extension and ', '.join(self.loader_mapping.keys()).
get_loader_for_file(file) ==
    LET file_extension == Lower(suffix(file.name))
    IN IF file_extension \notin DOMAIN loader_mapping
       THEN DocError("ValueError",
                     [text |-> "Unsupported file type", extension |-> file_extension,
                      supported |-> SupportedTypes])
       ELSE [raised |-> "", loader |-> loader_mapping[file_extension]]

\* Mutant: the cause of a loading failure is not carried by the error.
load_document_hides_cause(file) ==
    IF ~file.exists THEN DocError("FileNotFoundError", [text |-> "File not found"])
    ELSE IF get_loader_for_file(file).raised # "" \/ file.load = "fails"
    THEN DocError("Exception", [text |-> "Error loading document", path |-> file.name,
                                cause |-> [text |-> ""]])
    ELSE [raised |-> "",
          documents |-> [i \in 1..Len(loader_load(file)) |->
                            [page_content |-> loader_load(file)[i].page_content,
                             metadata |-> [source |-> basename(file_path(file)),
                                           file_path |-> file_path(file)]]]]

\* Mutant: the documents keep the metadata the loader gave them.
load_document_keeps_loader_source(file) ==
    IF ~file.exists THEN DocError("FileNotFoundError", [text |-> "File not found"])
    ELSE IF get_loader_for_file(file).raised # ""
    THEN DocError("Exception", [text |-> "Error loading document", path |-> file.name,
                                cause |-> get_loader_for_file(file).message])
    ELSE IF file.load = "fails"
    THEN DocError("Exception", [text |-> "Error loading document", path |-> file.name,
                                cause |-> [text |-> "loader failed"]])
    ELSE [raised |-> "", documents |-> loader_load(file)]

(* load_document: FileNotFoundError for a path that does not exist; any
   exception of the loader lookup or of loader.load() is raised again as
   Exception("Error loading document <path>: <str(e)>"). Every loaded document gets
   metadata["source"] = os.path.basename(file_path) and metadata["file_path"]. *)
load_document(file) ==
    LET loader == get_loader_for_file(file)
    IN IF ~file.exists THEN DocError("FileNotFoundError", [text |-> "File not found"])
       ELSE IF loader.raised # ""
       THEN DocError("Exception", [text |-> "Error loading document", path |-> file.name,
                                   cause |-> loader.message])
       ELSE IF file.load = "fails"
       THEN DocError("Exception", [text |-> "Error loading document", path |-> file.name,
                                   cause |-> [text |-> "loader failed"]])
       ELSE [raised |-> "",
             documents |-> [i \in 1..Len(loader_load(file)) |->
                               [page_content |-> loader_load(file)[i].page_content,
                                metadata |-> [source |-> basename(file_path(file)),
                                              file_path |-> file_path(file)]]]]

\* load_document, then split_documents: the chunks of the file.
process_document(file) ==
    LET loaded == load_document(file)
    IN IF loaded.raised # "" THEN loaded
       ELSE [raised |-> "", message |-> [text |-> ""],
             chunks |-> split_documents(loaded.documents)]

\* Mutant: the first file that fails ends the loop.
RECURSIVE process_multiple_documents_aborts(_)
process_multiple_documents_aborts(file_paths) ==
    IF file_paths = <<>> THEN <<>>
    ELSE IF process_document(Head(file_paths)).raised # "" THEN <<>>
    ELSE process_document(Head(file_paths)).chunks
             \o process_multiple_documents_aborts(Tail(file_paths))

\* for file_path in file_paths: try process_document and extend, except continue.
RECURSIVE process_multiple_documents(_)
process_multiple_documents(file_paths) ==
    IF file_paths = <<>> THEN <<>>
    ELSE (IF process_document(Head(file_paths)).raised # "" THEN <<>>
          ELSE process_document(Head(file_paths)).chunks)
             \o process_multiple_documents(Tail(file_paths))

IsFile(entry) == entry.kind = "file"
IsDir(entry) == entry.kind = "dir"
Supported(entry) == Lower(suffix(entry.name)) \in DOMAIN loader_mapping

\* The entries listed in root, each joined to it.
joined(root, entries) == [i \in 1..Len(entries) |-> join(root, entries[i])]

\* os.walk(top): the files of top, then the walk of each of its directories;
\* each file is os.path.join(root, file).
RECURSIVE walk(_, _)
RECURSIVE walk_dirs(_, _)
walk(root, entries) ==
    joined(root, SelectSeq(entries, IsFile)) \o walk_dirs(root, SelectSeq(entries, IsDir))
walk_dirs(root, dirs) ==
    IF dirs = <<>> THEN <<>>
    ELSE walk(Append(root, Head(dirs).name), Head(dirs).entries)
             \o walk_dirs(root, Tail(dirs))

IsSupportedFile(entry) == IsFile(entry) /\ Supported(entry)

(* process_directory(directory_path, recursive): NotADirectoryError for a path
   that is not a directory; else the supported files of os.walk, or of
   os.listdir that are files, go to process_multiple_documents. *)
process_directory(directory, recursive) ==
    IF ~IsDir(directory) THEN DocError("NotADirectoryError", [text |-> "Not a directory"])
    ELSE LET file_paths == IF recursive
                           THEN SelectSeq(walk(<<directory.name>>, directory.entries),
                                          Supported)
                           ELSE SelectSeq(joined(<<directory.name>>,
                                                 SelectSeq(directory.entries, IsFile)),
                                          IsSupportedFile)
         IN [raised |-> "", message |-> [text |-> ""],
             chunks |-> process_multiple_documents(file_paths)]

(***************************************************************************)
(* app.py                                                                  *)
(***************************************************************************)

Result(op, question, answer, sources, llm, raised, kind, ret) ==
    [op |-> op, question |-> question, answer |-> answer, sources |-> sources,
     llm |-> llm, raised |-> raised, kind |-> kind, ret |-> ret,
     before |-> Len(memory), input |-> <<>>]

\* One uploaded file: whether saving and process_document succeed, the chunks
\* process_document yields, and whether embedding them succeeds.
UploadFiles ==
    {[ok |-> FALSE, chunks |-> <<>>, embedOk |-> TRUE]}
    \cup {[ok |-> TRUE, chunks |-> c, embedOk |-> e] :
            c \in DocumentLists, e \in BOOLEAN}

\* An upload of one file or of two.
Batches == {<<f>> : f \in UploadFiles} \cup {<<f, g>> : f \in UploadFiles, g \in UploadFiles}

RECURSIVE TotalChunks(_)
TotalChunks(files) ==
    IF files = <<>> THEN 0
    ELSE Len(Head(files).chunks) + TotalChunks(Tail(files))

\* on_event("startup"): every exception is caught and printed.
startup_event(w, llmOk) == get_chatbot(get_vector_store(w), llmOk).w

\* The per-file loop of POST /upload: a file that fails goes to failed_files and
\* the loop goes on. Returns the state and the per-file statuses.
RECURSIVE upload_loop(_, _, _)
upload_loop(w, files, statuses) ==
    IF files = <<>> THEN [w |-> w, statuses |-> statuses]
    ELSE LET file == Head(files)
         IN IF ~file.ok
            THEN upload_loop(w, Tail(files), Append(statuses, "failed"))
            ELSE LET a == add_documents(get_vector_store(w), file.chunks, file.embedOk)
                 IN upload_loop(a.w, Tail(files),
                                Append(statuses, IF a.raised THEN "failed" ELSE "success"))

upload_documents(w, files, llmOk) ==
    LET l == upload_loop(w, files, <<>>)
        g == get_chatbot(l.w, llmOk)
    IN IF g.raised THEN [w |-> g.w, ret |-> l.statuses, raised |-> TRUE]
       ELSE [w |-> reinitialize_chain(g.w), ret |-> l.statuses, raised |-> FALSE]

delete_all_documents(w) == delete_collection(get_vector_store(w))

\* GET /search: every exception becomes HTTP 500.
search_documents(w, k, llmOk, o) ==
    LET g == get_chatbot(w, llmOk)
    IN IF g.raised THEN [w |-> g.w, ret |-> <<>>, raised |-> TRUE, kind |-> "unavailable"]
       ELSE [w |-> g.w, ret |-> get_relevant_documents(g.w, k, o).ret,
             raised |-> get_relevant_documents(g.w, k, o).raised, kind |-> "searched"]

(***************************************************************************)
(* streamlit_app.py                                                        *)
(***************************************************************************)

\* The loop of "Process Documents": one try around all of it, so the first file
\* that fails to save, process or index ends the loop.
RECURSIVE process_documents_loop(_, _)
process_documents_loop(w, files) ==
    IF files = <<>> THEN [w |-> w, raised |-> FALSE]
    ELSE LET file == Head(files)
         IN IF ~file.ok THEN [w |-> w, raised |-> TRUE]
            ELSE LET a == add_documents(w, file.chunks, file.embedOk)
                 IN IF a.raised THEN [w |-> a.w, raised |-> TRUE]
                    ELSE process_documents_loop(a.w, Tail(files))

\* The handler: the loop, then chatbot.reinitialize_chain(); an exception skips
\* the rest and is shown as one error.
process_documents(w, files) ==
    LET l == process_documents_loop(w, files)
    IN IF l.raised THEN l ELSE [w |-> reinitialize_chain(l.w), raised |-> FALSE]

(* A run of the script with the button pressed: the session state is filled
   from get_chatbot() and get_vector_store() when it is not yet; when that
   fails the handler finds no document_processor and shows the error. *)
streamlit_run(w, files, llmOk) ==
    LET g == get_chatbot(w, llmOk)
    IN IF g.raised THEN g ELSE process_documents(get_vector_store(g.w), files)

LoaderResult(op, name, r, created) ==
    [op |-> op, name |-> name, ret |-> r.ret, raised |-> r.raised, hit |-> r.hit,
     created |-> created]

\* The loader before anything asked for it.
LoaderIdle ==
    /\ config = [llms |-> [n \in Names |-> [load_on_init |-> "absent", has_import |-> TRUE,
                                            uses_env |-> FALSE]],
                 managerLLM |-> "a"]
    /\ environ = [envSet |-> TRUE, fault |-> [n \in Names |-> "none"]]
    /\ _llm_loader = FALSE
    /\ llm_instances = [n \in Names |-> 0]
    /\ constructions = [n \in Names |-> 0]
    /\ lastL = LoaderResult("", "", Returned(0, 0, FALSE), FALSE)

InitWorld(d) ==
    [dirExists |-> d, collGen |-> 0, collection |-> <<>>, _vector_store |-> FALSE,
     vectorstore |-> 0, _chatbot |-> FALSE, chain |-> NoChain, memory |-> <<>>,
     everAdded |-> FALSE, made |-> NoneMade]

\* A process restart keeps the disk and loses everything in memory.
Restarted(w) ==
    [w EXCEPT !._vector_store = FALSE, !.vectorstore = 0, !._chatbot = FALSE,
              !.chain = NoChain, !.memory = <<>>, !.made = NoneMade]

Init ==
    \E d \in BOOLEAN, llmOk \in BOOLEAN :
        LET w == startup_event(InitWorld(d), llmOk)
        IN /\ dirExists = w.dirExists
           /\ collGen = w.collGen
           /\ collection = w.collection
           /\ _vector_store = w._vector_store
           /\ vectorstore = w.vectorstore
           /\ _chatbot = w._chatbot
           /\ chain = w.chain
           /\ memory = w.memory
           /\ everAdded = w.everAdded
           /\ made = w.made
           /\ last = Result("startup", "", "", <<>>, FALSE, FALSE, "", <<>>)
           /\ LoaderIdle
           /\ PureIdle
           /\ LoopIdle

Restart ==
    \E llmOk \in BOOLEAN :
        /\ Apply(startup_event(Restarted(W), llmOk))
        /\ last' = Result("startup", "", "", <<>>, FALSE, FALSE, "", <<>>)

\* POST /upload
ApiUpload ==
    \E files \in Batches, llmOk \in BOOLEAN :
        /\ Len(collection) + TotalChunks(files) <= MaxColl
        /\ LET r == upload_documents(W, files, llmOk)
           IN /\ Apply(r.w)
              /\ last' = [Result("upload", "", "", <<>>, FALSE, r.raised, "", r.ret)
                              EXCEPT !.input = files]

\* POST /chat
ApiChat ==
    \E question \in Questions, llmOk \in BOOLEAN, o \in Outcomes :
        /\ Len(memory) < 2 * MaxTurns
        /\ LET g == get_chatbot(W, llmOk)
           IN IF g.raised
              THEN /\ Apply(g.w)
                   /\ last' = Result("chat", question, "", <<>>, FALSE, TRUE, "", <<>>)
              ELSE /\ Possible(IF g.w.chain.id = 0 THEN _initialize_chain(g.w) ELSE g.w, o)
                   /\ LET r == chat(g.w, question, o)
                      IN /\ Apply(r.w)
                         /\ last' = Result("chat", question, r.answer, r.source_documents,
                                           r.llm, r.raised, r.kind, <<>>)

\* GET /history
ApiHistory ==
    \E llmOk \in BOOLEAN :
        LET g == get_chatbot(W, llmOk)
        IN /\ Apply(g.w)
           /\ last' = Result("history", "", "", <<>>, FALSE, g.raised, "",
                             IF g.raised THEN <<>> ELSE get_chat_history(g.w))

\* POST /clear
ApiClear ==
    \E llmOk \in BOOLEAN :
        LET g == get_chatbot(W, llmOk)
        IN /\ Apply(IF g.raised THEN g.w ELSE clear_memory(g.w))
           /\ last' = Result("clear", "", "", <<>>, FALSE, g.raised, "", <<>>)

\* DELETE /documents
ApiDelete ==
    /\ Apply(delete_all_documents(W))
    /\ last' = Result("delete", "", "", <<>>, FALSE, FALSE, "", <<>>)

\* RAGChatbot.reinitialize_chain called on the chatbot (cli.py, streamlit_app.py)
Reinitialize ==
    /\ _chatbot
    /\ Apply(reinitialize_chain(W))
    /\ last' = Result("reinitialize", "", "", <<>>, FALSE, FALSE, "", <<>>)

\* RAGChatbot.add_documents_to_store called on the chatbot
AddToStore ==
    \E documents \in DocumentLists, embedOk \in BOOLEAN :
        /\ _chatbot
        /\ Len(collection) + Len(documents) <= MaxColl
        /\ LET r == add_documents_to_store(W, documents, embedOk)
           IN /\ Apply(r.w)
              /\ last' = Result("add_to_store", "", "", <<>>, FALSE, r.raised, "", documents)

\* VectorStoreManager.add_documents called on the manager (cli.py, streamlit_app.py)
AddDocuments ==
    \E documents \in DocumentLists, embedOk \in BOOLEAN :
        /\ Len(collection) + Len(documents) <= MaxColl
        /\ LET r == add_documents(get_vector_store(W), documents, embedOk)
           IN /\ Apply(r.w)
              /\ last' = [Result("add_documents", "", "", <<>>, FALSE, r.raised, "", r.ret)
                              EXCEPT !.input = documents]

\* The batches given to the web UI: one good file, and a good file with one that
\* fails to save or process, or to index, before or after it.
UiBatches ==
    LET good == [ok |-> TRUE, chunks |-> <<"c1">>, embedOk |-> TRUE]
        unreadable == [ok |-> FALSE, chunks |-> <<>>, embedOk |-> TRUE]
        unindexed == [ok |-> TRUE, chunks |-> <<"c1">>, embedOk |-> FALSE]
    IN {<<good>>, <<good, good>>, <<unreadable, good>>, <<good, unreadable>>,
        <<unindexed, good>>}

\* streamlit_app.py: the "Process Documents" button
UiProcessDocuments ==
    \E files \in UiBatches, llmOk \in BOOLEAN :
        /\ Len(collection) + TotalChunks(files) <= MaxColl
        /\ LET r == streamlit_run(W, files, llmOk)
           IN /\ Apply(r.w)
              /\ last' = [Result("process_documents", "", "", <<>>, FALSE, FALSE,
                                 IF r.raised THEN "error" ELSE "success", <<>>)
                              EXCEPT !.input = files]

Next ==
    \/ Restart
    \/ ApiUpload
    \/ UiProcessDocuments
    \/ ApiChat
    \/ ApiHistory
    \/ ApiClear
    \/ ApiDelete
    \/ Reinitialize
    \/ AddToStore
    \/ AddDocuments

Spec == Init /\ [][Next]_vars

(***************************************************************************)
(* Properties of the chain and the store                                   *)
(***************************************************************************)

RECURSIVE MemoryTokens(_)
MemoryTokens(mem) ==
    IF mem = <<>> THEN 0 ELSE Tokens(Head(mem).content) + MemoryTokens(Tail(mem))

\* A chat request that RAGChatbot.chat served (the chatbot could be constructed).
ChatServed == last.op = "chat" /\ last.kind # ""

\* C1: a chat request issued before any document has ever been added returns the
\* fixed "no documents" answer with no sources and without an LLM call, whether or
\* not the persistence directory existed when the manager was constructed.
C1_NoDocumentsBeforeAnyAdd ==
    (ChatServed /\ ~everAdded)
        => /\ last.answer = NoDocsAnswer
           /\ last.sources = <<>>
           /\ ~last.llm

\* C2: a chat request made while the store is empty or uninitialized, here after
\* documents were added and the collection was deleted again, returns the fixed
\* "no documents" answer and does not invoke the chain or the LLM.
C2_NoDocumentsAfterDelete ==
    (ChatServed /\ everAdded /\ get_collection_count(W) = 0)
        => /\ last.answer = NoDocsAnswer
           /\ ~last.llm

\* C3: the conversation memory never holds more tokens than max_tokens_limit.
C3_MemoryWithinBudget == MemoryTokens(memory) <= max_tokens_limit

\* C4: a chat turn answered by the chain makes the history two messages longer:
\* the old history, then the question, then the answer.
C4_TurnAppended ==
    [][(last'.op = "chat" /\ last'.kind = "answered")
        => get_chat_history(W)' =
             get_chat_history(W) \o
               <<[role |-> "human", content |-> last'.question],
                 [role |-> "ai", content |-> last'.answer]>>]_vars

C4_Witness ==
    /\ last.op = "chat" /\ last.kind = "answered"
    /\ last.before = 2 /\ Len(get_chat_history(W)) = 4

\* C5: after clear_memory the history is empty, whatever came before.
C5_ClearEmptiesHistory ==
    [][(last'.op = "clear" /\ ~last'.raised) => get_chat_history(W)' = <<>>]_vars

C5_Witness ==
    /\ last.op = "clear" /\ ~last.raised
    /\ last.before = 4 /\ everAdded /\ get_chat_history(W) = <<>>

\* C6: clear_memory on an existing chatbot leaves the chain object and the vector
\* store as they were.
C6_ClearKeepsChainAndStore ==
    [][(last'.op = "clear" /\ _chatbot)
        => /\ chain' = chain
           /\ vectorstore' = vectorstore
           /\ collGen' = collGen
           /\ collection' = collection
           /\ dirExists' = dirExists]_vars

C6_Witness == last.op = "clear" /\ chain.id # 0 /\ last.before > 0

\* The operations that rebuild the chain, when they return.
Rebuilt == last.op \in {"reinitialize", "add_to_store", "upload"} /\ ~last.raised

C8_ReadyChatStaysReady ==
    [][(last'.op = "chat" /\ _chatbot /\ chain.id # 0)
        => /\ ~last'.raised
           /\ chain' = chain
           /\ last'.kind \in {"answered", "error"}
           /\ (last'.kind = "error"
                 => last'.answer = ErrorAnswer /\ last'.sources = <<>>)]_vars

C8_Witness == last.op = "chat" /\ last.kind = "error" /\ chain.id # 0 /\ last.before > 0

\* The chunks of the files of a batch that save, process and index.
RECURSIVE Indexable(_)
Indexable(files) ==
    IF files = <<>> THEN <<>>
    ELSE (IF Head(files).ok /\ Head(files).embedOk THEN Head(files).chunks ELSE <<>>)
             \o Indexable(Tail(files))

\* C16: in a batch upload through POST /upload or the web UI, a file that fails is
\* isolated: every other file of the batch is indexed, and the chain is
\* reinitialized afterwards.
C16_BatchIsolation ==
    [][(last'.op \in {"upload", "process_documents"} /\ _chatbot)
        => /\ collection' = collection \o Indexable(last'.input)
           /\ (vectorstore' # 0 => chain'.id # 0 /\ chain'.id # chain.id)]_vars

\* The call of add_documents that the last step made, with a list that is not
\* empty, returned.
Added == last.op = "add_documents" /\ last.input # <<>> /\ ~last.raised

\* What get_collection_count reports on the manager of the process.
Count == get_collection_count(get_vector_store(W))

IsPrefix(s, t) == Len(s) <= Len(t) /\ SubSeq(t, 1, Len(s)) = s

\* C17: the first non-empty add_documents with no store at the configured
\* location creates a persisted collection with exactly those chunks; a later one
\* appends to the same collection; until a deletion the collection keeps every
\* earlier chunk, and the count grows by the number of chunks added.
C17_CreateThenAppend ==
    [][/\ Added'
          => /\ collection' = collection \o last'.input
             /\ Count' = Count + Len(last'.input)
             /\ dirExists' /\ collGen' # 0 /\ vectorstore' = collGen'
             /\ (~dirExists => collection' = last'.input)
             /\ (collGen # 0 => collGen' = collGen)
       /\ last'.op # "delete" => IsPrefix(collection, collection')]_vars

C17_Witness ==
    /\ Added
    /\ Len(collection) > Len(last.input)
    /\ last.ret # <<>>

\* C25: an add_documents call that adds a non-empty list returns the IDs of the
\* documents it added, one per document, whether it created the store or appended.
C25_ReturnsIds == Added => Len(last.ret) = Len(last.input)

\* A chat request answered without the chain's answer: the "no documents" answer,
\* or a failed invocation reported as an answer.
ChatUnanswered == last.op = "chat" /\ last.kind \in {"no_documents", "error"}

\* C26: a chat request that short-circuits with the "no documents" answer, or whose
\* chain invocation fails and is reported as an error answer, leaves the memory as
\* it was: get_chat_history returns the same sequence as before the request.
C26_UnansweredChatKeepsMemory ==
    [][ChatUnanswered'
        => /\ memory' = memory
           /\ get_chat_history(W)' = get_chat_history(W)]_vars

\* The short-circuit answer given while the memory holds an earlier turn.
C26_Witness ==
    /\ ChatUnanswered
    /\ last.kind = "no_documents"
    /\ Len(memory) = 2
    /\ last.before = 2

\* An operation that rebuilds the chain has run: reinitialize_chain,
\* add_documents_to_store, an upload, or a chat that found no chain.
Rebuilding ==
    \/ last'.op \in {"reinitialize", "add_to_store", "upload", "process_documents"}
    \/ last'.op = "chat" /\ last'.kind # "" /\ chain.id = 0

\* C29: rebuilding the chain, whether it succeeds or fails, never changes the
\* conversation memory: the history after the rebuild is the history before it
\* (with the turn of the chat behind a lazy rebuild, when the chain answered it),
\* and a rebuilt chain holds the memory object of the chatbot.
C29_RebuildKeepsMemory ==
    [][Rebuilding
        => /\ IF last'.op = "chat" /\ last'.kind = "answered"
              THEN get_chat_history(W)' =
                     get_chat_history(W) \o
                       <<[role |-> "human", content |-> last'.question],
                         [role |-> "ai", content |-> last'.answer]>>
              ELSE get_chat_history(W)' = get_chat_history(W)
           /\ chain'.id # 0 => chain'.memory = self_memory(W)']_vars

\* A rebuild over a history: the chain is new and the history is in place.
C29_Witness ==
    /\ last.op = "reinitialize"
    /\ last.before = 2
    /\ Len(get_chat_history(W)) = 2
    /\ chain.id # 0
    /\ chain.memory = self_memory(W)

\* C19: delete_collection removes the collection and its persisted state: the
\* store then reports zero documents, a process restarted at that point starts
\* with no store at the configured location, and the next non-empty add_documents
\* creates the collection anew with only the chunks added.
C19_DeleteRemovesPersistedState ==
    [][/\ last'.op = "delete" => collection' = <<>> /\ Count' = 0
       /\ (last.op = "delete" /\ last'.op = "startup") => vectorstore' = 0
       /\ (last.op = "delete" /\ Added') => collection' = last'.input]_vars

\* C20: add_documents with an empty list returns an empty result, raises nothing,
\* creates no store when there is none and leaves an existing collection as it is.
C20_EmptyAddIsNoOp ==
    [][(last'.op = "add_documents" /\ last'.input = <<>> /\ _vector_store)
        => /\ last'.ret = <<>> /\ ~last'.raised
           /\ UNCHANGED <<dirExists, collGen, collection, vectorstore, _vector_store,
                          chain, memory, _chatbot>>]_vars

C20_Witness ==
    /\ last.op = "add_documents" /\ last.input = <<>>
    /\ ~dirExists /\ vectorstore = 0 /\ _vector_store

\* GET /history returned a history.
HistoryServed == last.op = "history" /\ ~last.raised

\* C22 as stated: the history is an ordered sequence of messages each tagged with
\* the role user or assistant.
C22_RolesUserAssistant ==
    HistoryServed => \A i \in 1..Len(last.ret) : last.ret[i].role \in {"user", "assistant"}

\* C22 amended: the history is the messages of the memory in order, each tagged
\* with the type of the message: human for a question, ai for the answer after it.
C22_RolesHumanAi ==
    HistoryServed
        => /\ Len(last.ret) = Len(memory)
           /\ \A i \in 1..Len(last.ret) :
                 /\ last.ret[i].content = memory[i].content
                 /\ last.ret[i].role = (IF i % 2 = 1 THEN "human" ELSE "ai")
                 /\ (i % 2 = 1 => last.ret[i].content \in Questions)
                 /\ (i % 2 = 0 => last.ret[i].content \in Answers)

C22_Witness == HistoryServed /\ Len(last.ret) = 2 * MaxTurns

(***************************************************************************)
(* The loader on its own                                                   *)
(***************************************************************************)

MaxConstructions == 2   \* load_llm is not asked for a name already constructed this often

Loader == [_llm_loader |-> _llm_loader, llm_instances |-> llm_instances,
           constructions |-> constructions, made |-> made]

SetLoader(L) ==
    /\ _llm_loader' = L._llm_loader
    /\ llm_instances' = L.llm_instances
    /\ constructions' = L.constructions

ApplyLoader(L) ==
    /\ SetLoader(L)
    /\ made' = L.made
    /\ UNCHANGED <<config, environ, chatVars, pureVars, loopVars>>

InitLoader ==
    /\ config \in Configs
    /\ environ \in Environs
    /\ _llm_loader = FALSE
    /\ llm_instances = [n \in Names |-> 0]
    /\ constructions = [n \in Names |-> 0]
    /\ lastL = LoaderResult("", "", Returned(0, 0, FALSE), FALSE)
    /\ dirExists = FALSE
    /\ collGen = 0
    /\ collection = <<>>
    /\ _vector_store = FALSE
    /\ vectorstore = 0
    /\ _chatbot = FALSE
    /\ chain = NoChain
    /\ memory = <<>>
    /\ everAdded = FALSE
    /\ last = Result("", "", "", <<>>, FALSE, FALSE, "", <<>>)
    /\ PureIdle
    /\ made = NoneMade
    /\ LoopIdle

\* get_llm_loader()
GetLlmLoader ==
    /\ ApplyLoader(get_llm_loader(Loader))
    /\ lastL' = LoaderResult("get_llm_loader", "", Returned(0, 0, FALSE), ~_llm_loader)

\* LLMConfigLoader.load_llm(llm_name) on the loader
LoadLlm ==
    \E llm_name \in Requested :
        /\ _llm_loader
        /\ llm_name \in Names => constructions[llm_name] < MaxConstructions
        /\ LET r == load_llm(Loader, llm_name)
           IN /\ ApplyLoader(r.L)
              /\ lastL' = LoaderResult("load_llm", llm_name, r, FALSE)

\* llm_loader.get_manager_llm(): get_llm_loader().get_manager_llm()
GetManagerLlm ==
    /\ config.managerLLM \in Names => constructions[config.managerLLM] < MaxConstructions
    /\ LET r == get_manager_llm(get_llm_loader(Loader))
       IN /\ ApplyLoader(r.L)
          /\ lastL' = LoaderResult("get_manager_llm", config.managerLLM, r, ~_llm_loader)

\* The environment changes: a variable is set or unset, a package installed or
\* removed, a provider starts or stops accepting the constructor's arguments.
EnvironChange ==
    /\ environ' \in Environs \ {environ}
    /\ lastL' = LoaderResult("environ", "", Returned(0, 0, FALSE), FALSE)
    /\ UNCHANGED <<config, _llm_loader, llm_instances, constructions, chatVars, pureVars,
                   made, loopVars>>

NextLoader ==
    \/ GetLlmLoader
    \/ LoadLlm
    \/ GetManagerLlm
    \/ EnvironChange

SpecLoader == InitLoader /\ [][NextLoader]_vars

\* An entry constructs now: its import target is given and resolves, its
\* environment reference is set, its class returns.
Constructible(n) ==
    /\ config.llms[n].has_import
    /\ environ.fault[n] = "none"
    /\ (config.llms[n].uses_env => environ.envSet)

\* The initialization flag of the entry is set: "true" in any letter case.
FlagSet(n) == config.llms[n].load_on_init \in {"True", "true"}

\* C9: once a name is cached, load_llm and get_manager_llm for it return the cached
\* instance, construct nothing and raise nothing, whatever the environment has
\* become; no name is constructed more than once.
C9_LoadedOnce ==
    /\ [](\A n \in Names : constructions[n] <= 1)
    /\ [][\A n \in Names :
            (/\ _llm_loader
             /\ llm_instances[n] # 0
             /\ lastL'.op \in {"load_llm", "get_manager_llm"}
             /\ lastL'.name = n)
            => /\ lastL'.ret = llm_instances[n]
               /\ lastL'.raised = ""
               /\ llm_instances' = llm_instances
               /\ constructions' = constructions]_vars

C9_Witness ==
    /\ lastL.op = "get_manager_llm" /\ lastL.hit /\ lastL.ret = 1
    /\ ~Constructible(lastL.name)

\* C10: creating the loader succeeds and leaves every flagged entry that can be
\* constructed in the cache, constructed once, whether or not other flagged
\* entries failed; an entry that failed is skipped.
C10_EagerLoading ==
    lastL.created
        => /\ _llm_loader
           /\ \A n \in Names :
                FlagSet(n) =>
                    IF Constructible(n)
                    THEN llm_instances[n] = 1 /\ constructions[n] = 1
                    ELSE llm_instances[n] = 0 /\ constructions[n] = 0

C10_Witness ==
    /\ lastL.created
    /\ FlagSet("a") /\ ~Constructible("a") /\ llm_instances["a"] = 0
    /\ FlagSet("b") /\ llm_instances["b"] = 1

\* C12: load_llm on a registry entry whose module cannot be imported, or whose
\* class cannot be resolved in it, fails with an import error and constructs and
\* caches nothing for that name.
C12_ImportFailure ==
    [][\A n \in Names :
          (/\ lastL'.op = "load_llm" /\ lastL'.name = n /\ ~lastL'.hit
           /\ config.llms[n].has_import
           /\ environ.fault[n] \in {"import", "import_raises"})
              => /\ lastL'.raised = "ImportError"
                 /\ llm_instances'[n] = llm_instances[n]
                 /\ constructions'[n] = constructions[n]]_vars

\* load_llm or get_manager_llm was called for the name.
LoadOf(n) == lastL.op \in {"load_llm", "get_manager_llm"} /\ lastL.name = n

\* C27: a load_llm that fails leaves the cache as it was and records no failure:
\* a later load_llm of the name constructs it once the cause is gone, also for an
\* entry whose eager load failed when the loader was created.
C27_FailedLoadRetried ==
    [][\A n \in Requested :
          /\ (_llm_loader /\ LoadOf(n)' /\ lastL'.raised # "")
                => llm_instances' = llm_instances /\ constructions' = constructions
          /\ (n \in Names /\ _llm_loader /\ LoadOf(n)' /\ llm_instances[n] = 0
                 /\ Constructible(n))
                => /\ lastL'.raised = ""
                   /\ ~lastL'.hit
                   /\ llm_instances'[n] = lastL'.ret
                   /\ constructions'[n] = 1]_vars

\* A flagged entry that the creation of the loader could not construct, constructed
\* by a later load_llm.
C27_Witness ==
    /\ lastL.op = "load_llm" /\ lastL.raised = "" /\ ~lastL.hit
    /\ lastL.name \in Names
    /\ FlagSet(lastL.name)
    /\ llm_instances[lastL.name] = 1

(***************************************************************************)
(* Resolution of constructor arguments on its own                          *)
(***************************************************************************)

\* The values of the model: strings with and without a reference, a number, a
\* list that holds a reference, and dicts nested one and two deep.
Scalars ==
    {Str(<<"plain">>), Str(<<"", "FOO">>), Str(<<"", "A_", "B">>), Str(<<"x", "FOO">>),
     [t |-> "int", v |-> 7], [t |-> "list", v |-> <<Str(<<"", "FOO">>)>>]}

Nested1 == {Dict([k \in {"k"} |-> x]) : x \in Scalars}
Nested2 == {Dict([k \in {"k"} |-> x]) : x \in Nested1}
ArgConfigs == {Dict(f) : f \in [{"x", "y"} -> Scalars \cup Nested1 \cup Nested2]}

\* The store and the chatbot before anything asked for them.
ChatIdle ==
    /\ dirExists = FALSE
    /\ collGen = 0
    /\ collection = <<>>
    /\ _vector_store = FALSE
    /\ vectorstore = 0
    /\ _chatbot = FALSE
    /\ chain = NoChain
    /\ memory = <<>>
    /\ everAdded = FALSE
    /\ last = Result("", "", "", <<>>, FALSE, FALSE, "", <<>>)
    /\ made = NoneMade
    /\ LoopIdle

InitResolve ==
    /\ call \in [fn : {"_resolve_config_values"}, env : OsEnvirons, config : ArgConfigs]
    /\ result = [done |-> FALSE]
    /\ LoaderIdle
    /\ ChatIdle

\* resolved_config = self._resolve_config_values(llm_config.get("config", {}))
ResolveConfig ==
    /\ ~result.done
    /\ result' = [done |-> TRUE, value |-> _resolve_config_values(call.env, call.config)]
    /\ UNCHANGED <<call, chatVars, loaderVars, made, loopVars>>

NextResolve == ResolveConfig

SpecResolve == InitResolve /\ [][NextResolve]_vars

\* What the claim says of one value: a string ENV:<VAR> becomes the value of the
\* variable named by everything after the prefix, or a configuration error when
\* that variable is unset; anything else stays.
ClaimedValue(env, value) ==
    IF value.t = "str" /\ Len(value.v) >= 2 /\ value.v[1] = ""
    THEN IF getenv(env, Tail(value.v)) = Unset
         THEN ConfigError(Tail(value.v))
         ELSE getenv(env, Tail(value.v))
    ELSE value

\* The values of a config, at any depth of nested dicts, as the claim has them.
RECURSIVE ClaimedLeaves(_, _)
ClaimedLeaves(env, cfg) ==
    UNION {IF cfg.v[key].t = "dict" THEN ClaimedLeaves(env, cfg.v[key])
           ELSE {ClaimedValue(env, cfg.v[key])} : key \in DOMAIN cfg.v}

RECURSIVE ClaimedConfig(_, _)
ClaimedConfig(env, cfg) ==
    Dict([key \in DOMAIN cfg.v |->
            IF cfg.v[key].t = "dict" THEN ClaimedConfig(env, cfg.v[key])
            ELSE ClaimedValue(env, cfg.v[key])])

\* C11: resolution replaces every ENV:<VAR> string, at any depth, by the value of
\* <VAR>, fails with a configuration error when some <VAR> is unset, and passes
\* every other value through.
C11_EnvResolved ==
    result.done
        => IF \E leaf \in ClaimedLeaves(call.env, call.config) : IsError(leaf)
           THEN IsError(result.value)
           ELSE result.value = ClaimedConfig(call.env, call.config)

(***************************************************************************)
(* The document processor on its own                                       *)
(***************************************************************************)

MaxEntries == 3   \* entries listed in the directory given to process_directory

ChunkArgs == {None, Given(0), Given(100), Given(500)}
OverlapArgs == {None, Given(0), Given(50), Given(300)}
ChunkEnvs == [CHUNK_SIZE : {"", "800", "abc"}, CHUNK_OVERLAP : {"", "50", "abc"}]

\* The files of the model: loadable ones, one whose loader fails, and names whose
\* extension is unknown, missing, or only a leading dot.
Files ==
    {File(<<"a", "pdf">>, "ok", <<"a1", "a2">>),
     File(<<"b", "Txt">>, "ok", <<"b1">>),
     File(<<"c", "csv">>, "fails", <<>>),
     File(<<"d", "xyz">>, "ok", <<"d1">>),
     File(<<"README">>, "ok", <<"r1">>),
     File(<<"", "txt">>, "ok", <<"h1">>)}

Gone == [File(<<"gone", "pdf">>, "ok", <<>>) EXCEPT !.exists = FALSE]

\* A subdirectory, itself named like a document, with the files it may hold.
SubDirectories ==
    {Directory(<<"sub", "pdf">>, entries) :
        entries \in {<<>>,
                     <<File(<<"s", "PDF">>, "ok", <<"s1">>)>>,
                     <<File(<<"t", "csv">>, "fails", <<>>),
                       File(<<"s", "PDF">>, "ok", <<"s1">>)>>}}

Listings ==
    UNION {{l \in [1..n -> Files \cup SubDirectories] :
               \A i, j \in 1..n : l[i].name = l[j].name => i = j} : n \in 0..MaxEntries}

DocCalls ==
    [fn : {"DocumentProcessor"}, chunk_size : ChunkArgs, chunk_overlap : OverlapArgs,
     env : ChunkEnvs]
    \cup [fn : {"get_loader_for_file"}, file : Files]
    \cup [fn : {"process_document"},
          file : {join(<<<<"uploads">>>>, f) : f \in Files \cup {Gone}}]
    \cup [fn : {"process_multiple_documents"},
          files : {<<join(<<<<"uploads">>>>, f), g>> : f \in Files \cup {Gone}, g \in Files}]
    \cup [fn : {"process_directory"},
          directory : {Directory(<<"docs">>, l) : l \in Listings} \cup Files,
          recursive : BOOLEAN]

InitDoc ==
    /\ call \in DocCalls
    /\ result = [done |-> FALSE]
    /\ LoaderIdle
    /\ ChatIdle

Return(value) ==
    /\ ~result.done
    /\ result' = [done |-> TRUE, value |-> value]
    /\ UNCHANGED <<call, chatVars, loaderVars, made, loopVars>>

NewDocumentProcessor ==
    /\ call.fn = "DocumentProcessor"
    /\ Return(DocumentProcessor(call.chunk_size, call.chunk_overlap, call.env))

GetLoaderForFile ==
    /\ call.fn = "get_loader_for_file"
    /\ Return(get_loader_for_file(call.file))

ProcessDocument ==
    /\ call.fn = "process_document"
    /\ Return(process_document(call.file))

ProcessMultipleDocuments ==
    /\ call.fn = "process_multiple_documents"
    /\ Return([raised |-> "", message |-> [text |-> ""],
               chunks |-> process_multiple_documents(call.files)])

ProcessDirectory ==
    /\ call.fn = "process_directory"
    /\ Return(process_directory(call.directory, call.recursive))

NextDoc ==
    \/ NewDocumentProcessor
    \/ GetLoaderForFile
    \/ ProcessDocument
    \/ ProcessMultipleDocuments
    \/ ProcessDirectory

SpecDoc == InitDoc /\ [][NextDoc]_vars

Returned_(fn) == result.done /\ call.fn = fn

\* The extension of the name, compared without regard to case, has no loader.
Unsupported(file) == \A i \in 1..Len(SupportedTypes) : Lower(suffix(file.name)) # SupportedTypes[i]

Enumerates(message) ==
    /\ message.text = "Unsupported file type"
    /\ {message.supported[i] : i \in 1..Len(message.supported)} = DOMAIN loader_mapping

\* C13: processing an existing file whose extension has no loader fails with an
\* unsupported-format error that lists the supported extensions, and yields no
\* chunks; the loader lookup itself fails with the same message.
C13_UnsupportedExtension ==
    /\ (Returned_("process_document") /\ call.file.exists /\ Unsupported(call.file))
          => /\ result.value.raised = "Exception"
             /\ Enumerates(result.value.message.cause)
             /\ result.value.chunks = <<>>
    /\ (Returned_("get_loader_for_file") /\ Unsupported(call.file))
          => /\ result.value.raised = "ValueError"
             /\ Enumerates(result.value.message)

C13_Witness ==
    /\ Returned_("process_document")
    /\ call.file.name = <<"d", "xyz">>
    /\ result.value.raised = "Exception"

\* The default of an argument: the environment variable when set, else the
\* built-in number.
DefaultOf(value, builtin) == IF value = "" THEN Given(builtin) ELSE int(value)

\* C14: a DocumentProcessor constructed with explicit chunk_size / chunk_overlap
\* uses exactly the value passed, whatever it is; the default (environment, else
\* 1000 / 200) is used only for an argument that is not given.
C14_ExplicitArguments ==
    Returned_("DocumentProcessor")
        => /\ call.chunk_size.given => result.value.chunk_size = call.chunk_size
           /\ (call.chunk_overlap.given /\ result.value.chunk_size.given)
                 => result.value.chunk_overlap = call.chunk_overlap
           /\ (~call.chunk_size.given /\ result.value.chunk_size.given)
                 => result.value.chunk_size = DefaultOf(call.env.CHUNK_SIZE, DefaultChunkSize)
           /\ (~call.chunk_overlap.given /\ result.value.chunk_overlap.given)
                 => result.value.chunk_overlap
                        = DefaultOf(call.env.CHUNK_OVERLAP, DefaultChunkOverlap)

\* The files process_directory is to take, by the claim: the supported files of
\* the directory itself, then, when recursive, those of each subdirectory.
RECURSIVE Flatten(_)
Flatten(seqs) == IF seqs = <<>> THEN <<>> ELSE Head(seqs) \o Flatten(Tail(seqs))

Eligible(directory, recursive) ==
    LET own == SelectSeq(directory.entries, IsFile)
        subs == SelectSeq(directory.entries, IsDir)
        all == IF recursive
               THEN own \o Flatten([i \in 1..Len(subs) |-> subs[i].entries])
               ELSE own
        HasLoader(f) == ~Unsupported(f)
    IN SelectSeq(all, HasLoader)

ChunksOf(files) ==
    Flatten([i \in 1..Len(files) |-> IF files[i].load = "ok" THEN files[i].chunks ELSE <<>>])

Contents(chunks) == [i \in 1..Len(chunks) |-> chunks[i].page_content]

\* C15: process_directory returns the concatenation, in enumeration order, of the
\* chunks of exactly the supported files that process successfully: a file that
\* fails is skipped and the files after it are still processed.
C15_DirectoryAggregates ==
    (Returned_("process_directory") /\ IsDir(call.directory))
        => /\ result.value.raised = ""
           /\ Contents(result.value.chunks)
                  = ChunksOf(Eligible(call.directory, call.recursive))

C15_Witness ==
    /\ Returned_("process_directory")
    /\ IsDir(call.directory)
    /\ call.recursive
    /\ Len(call.directory.entries) = 3
    /\ call.directory.entries[1].name = <<"c", "csv">>
    /\ call.directory.entries[2].kind = "dir"
    /\ call.directory.entries[3].name = <<"a", "pdf">>
    /\ Contents(result.value.chunks) = <<"a1", "a2", "s1">>

\* Every file of the model, wherever it is listed.
AllFiles ==
    Files \cup UNION {{d.entries[i] : i \in 1..Len(d.entries)} : d \in SubDirectories}

\* C21: every chunk produced by process_document, process_multiple_documents or
\* process_directory carries as metadata source the base name of the file it was
\* cut from.
C21_ChunksCarrySource ==
    (/\ result.done
     /\ call.fn \in {"process_document", "process_multiple_documents", "process_directory"}
     /\ result.value.raised = "")
        => \A i \in 1..Len(result.value.chunks) :
              \E f \in AllFiles :
                 /\ \E j \in 1..Len(f.chunks) :
                        f.chunks[j] = result.value.chunks[i].page_content
                 /\ result.value.chunks[i].metadata.source = [dir |-> <<>>, name |-> f.name]

C21_Witness ==
    /\ Returned_("process_directory")
    /\ call.recursive
    /\ \E i \in 1..Len(result.value.chunks) :
          /\ result.value.chunks[i].metadata.file_path.dir = <<<<"docs">>, <<"sub", "pdf">>>>
          /\ result.value.chunks[i].metadata.source.name = <<"s", "PDF">>

(***************************************************************************)
(* Searching the store                                                     *)
(***************************************************************************)

\* The k of a request: none, one, and the default.
SearchKs == {0, 1, search_k}

\* GET /search
ApiSearch ==
    \E k \in SearchKs, llmOk \in BOOLEAN, o \in SearchOutcomes :
        LET r == search_documents(W, k, llmOk, o)
        IN /\ Apply(r.w)
           /\ last' = [Result("search", "", "", <<>>, FALSE, r.raised, r.kind, r.ret)
                           EXCEPT !.input = <<k>>]

\* VectorStoreManager.similarity_search called on the manager
SimilaritySearch ==
    \E k \in SearchKs, filter \in Filters, o \in SearchOutcomes :
        LET w == get_vector_store(W)
            r == similarity_search(w, k, filter, o)
        IN /\ Apply(w)
           /\ last' = [Result("similarity_search", "", "", <<>>, FALSE, r.raised,
                              "searched", r.ret)
                           EXCEPT !.input = <<k>>]

NextSearch ==
    \/ Restart
    \/ AddDocuments
    \/ ApiDelete
    \/ ApiSearch
    \/ SimilaritySearch

SpecSearch == Init /\ [][NextSearch]_vars

\* C18: a search on an empty store, never populated or populated and deleted,
\* returns an empty result and raises nothing, for every query, k and filter.
C18_EmptySearch ==
    (last.op \in {"search", "similarity_search"} /\ last.kind = "searched"
        /\ collection = <<>>)
        => last.ret = <<>> /\ ~last.raised

(***************************************************************************)
(* The three module globals over one process: get_chatbot (rag_chain.py),  *)
(* get_vector_store (vector_store.py), get_llm_loader (llm_loader.py),     *)
(* with RAGChatbot() reaching the other two through its constructor.       *)
(***************************************************************************)

Globals == {"_chatbot", "_vector_store", "_llm_loader"}

\* The global of each accessor holds an object.
IsSet(g) ==
    CASE g = "_chatbot" -> _chatbot
      [] g = "_vector_store" -> _vector_store
      [] g = "_llm_loader" -> _llm_loader

InitSingletons ==
    /\ config \in Configs
    /\ environ \in Environs
    /\ _llm_loader = FALSE
    /\ llm_instances = [n \in Names |-> 0]
    /\ constructions = [n \in Names |-> 0]
    /\ lastL = LoaderResult("", "", Returned(0, 0, FALSE), FALSE)
    /\ \E d \in BOOLEAN :
           LET w == InitWorld(d)
           IN /\ dirExists = w.dirExists
              /\ collGen = w.collGen
              /\ collection = w.collection
              /\ _vector_store = w._vector_store
              /\ vectorstore = w.vectorstore
              /\ _chatbot = w._chatbot
              /\ chain = w.chain
              /\ memory = w.memory
              /\ everAdded = w.everAdded
    /\ last = Result("", "", "", <<>>, FALSE, FALSE, "", <<>>)
    /\ PureIdle
    /\ made = NoneMade
    /\ LoopIdle

\* get_chatbot(): when the global is empty, RAGChatbot() calls get_manager_llm(),
\* that is get_llm_loader().get_manager_llm(), and then get_vector_store().
CallGetChatbot ==
    LET r == IF _chatbot THEN Returned(Loader, 0, FALSE)
             ELSE get_manager_llm(get_llm_loader(Loader))
        g == get_chatbot(W, r.raised = "")
    IN /\ SetChat(g.w)
       /\ SetLoader(r.L)
       /\ made' = [g.w.made EXCEPT !._llm_loader = r.L.made._llm_loader]
       /\ last' = Result("get_chatbot", "", "", <<>>, FALSE, g.raised, "", <<>>)
       /\ lastL' = LoaderResult(IF _chatbot THEN "" ELSE "get_manager_llm",
                                 config.managerLLM, r, ~_llm_loader)
       /\ UNCHANGED <<config, environ, pureVars, loopVars>>

\* get_vector_store()
CallGetVectorStore ==
    /\ Apply(get_vector_store(W))
    /\ last' = Result("get_vector_store", "", "", <<>>, FALSE, FALSE, "", <<>>)

NextSingletons ==
    \/ CallGetChatbot
    \/ CallGetVectorStore
    \/ GetLlmLoader
    \/ EnvironChange
    \/ ApiDelete

SpecSingletons == InitSingletons /\ [][NextSingletons]_vars

\* C23: over one process, each of get_chatbot, get_vector_store and get_llm_loader
\* constructs at most one object: the global holds an object exactly when one was
\* constructed, and once it does, no later call constructs another or empties it.
C23_Singletons ==
    [][\A g \in Globals :
          /\ made'[g] <= 1
          /\ IsSet(g)' <=> made'[g] = 1
          /\ IsSet(g) => IsSet(g)' /\ made'[g] = made[g]]_vars

\* All three objects exist and an accessor was called again.
C23_Witness ==
    /\ \A g \in Globals : IsSet(g) /\ made[g] = 1
    /\ last.op = "get_chatbot"
    /\ ~last.raised
    /\ lastL.op = ""

(***************************************************************************)
(* app.py under two requests sent at once. Every handler is an async def   *)
(* whose body holds no await: the event loop that runs it takes up another *)
(* handler only when this one has returned.                                *)
(***************************************************************************)

\* Mutant: the handlers run in a thread pool, as plain def handlers would.
CanRun_threads(r) == TRUE

\* The event loop executes the handler of r, or can take it up.
CanRun(r) == running \in {0, r}

\* The handler of r returns: the event loop is free.
Finish(r) ==
    /\ running' = 0
    /\ task' = [task EXCEPT ![r] = Pending]

\* The handler of r goes on to its next statement.
Goto(r, t) ==
    /\ running' = r
    /\ task' = [task EXCEPT ![r] = t]

\* The process was started over a store with or without chunks of an earlier run.
InitRequests ==
    /\ \E d \in BOOLEAN, docs \in {<<>>, <<"c1">>}, llmOk \in BOOLEAN :
           LET w0 == IF d THEN add_documents(get_vector_store(InitWorld(d)), docs, TRUE).w
                          ELSE InitWorld(d)
               w == startup_event(Restarted(w0), llmOk)
           IN /\ dirExists = w.dirExists
              /\ collGen = w.collGen
              /\ collection = w.collection
              /\ _vector_store = w._vector_store
              /\ vectorstore = w.vectorstore
              /\ _chatbot = w._chatbot
              /\ chain = w.chain
              /\ memory = w.memory
              /\ everAdded = w.everAdded
              /\ made = w.made
    /\ last = Result("", "", "", <<>>, FALSE, FALSE, "", <<>>)
    /\ LoaderIdle
    /\ PureIdle
    /\ LoopIdle

\* POST /chat, up to the chain: get_chatbot(), then in RAGChatbot.chat the test of
\* self.chain with its lazy rebuild; the chain then loads the memory for its prompt.
ChatBegin(r) ==
    \E question \in Questions, llmOk \in BOOLEAN :
        /\ CanRun(r)
        /\ task[r].pc = "pending"
        /\ Len(memory) < 2 * MaxTurns
        /\ LET g == get_chatbot(W, llmOk)
               w1 == IF g.w.chain.id = 0 THEN _initialize_chain(g.w) ELSE g.w
           IN /\ SetChat(w1)
              /\ made' = w1.made
              /\ IF g.raised
                 THEN /\ Finish(r)
                      /\ last' = Result("chat", question, "", <<>>, FALSE, TRUE, "", <<>>)
                 ELSE IF w1.chain.id = 0
                 THEN /\ Finish(r)
                      /\ last' = Result("chat", question, NoDocsAnswer, <<>>, FALSE, FALSE,
                                        "no_documents", <<>>)
                 ELSE /\ Goto(r, [pc |-> "invoke", question |-> question, answer |-> "",
                                  seen |-> w1.memory])
                      /\ UNCHANGED last
        /\ UNCHANGED <<loaderVars, pureVars>>

\* self.chain.invoke: condense, retrieve and answer, or the exception that
\* RAGChatbot.chat turns into an answer.
ChatInvoke(r) ==
    \E o \in Outcomes :
        /\ CanRun(r)
        /\ task[r].pc = "invoke"
        /\ Possible(W, o)
        /\ IF o.fail = "none"
           THEN /\ Goto(r, [task[r] EXCEPT !.pc = "save", !.answer = o.answer])
                /\ UNCHANGED last
           ELSE /\ Finish(r)
                /\ last' = Result("chat", task[r].question, ErrorAnswer, <<>>,
                                  invoke(W, task[r].question, o).llm, FALSE, "error", <<>>)
        /\ UNCHANGED <<dirExists, collGen, collection, _vector_store, vectorstore, _chatbot,
                       chain, memory, everAdded, loaderVars, pureVars, made>>

\* The chain saves the turn and the handler returns the answer.
ChatSave(r) ==
    /\ CanRun(r)
    /\ task[r].pc = "save"
    /\ SetChat([W EXCEPT !.memory = save_context(@, task[r].question, task[r].answer)])
    /\ Finish(r)
    /\ last' = Result("chat", task[r].question, task[r].answer,
                      Take(collection, search_k), TRUE, FALSE, "answered", <<>>)
    /\ UNCHANGED <<loaderVars, pureVars, made>>

\* POST /upload, the loop over the files.
UploadBegin(r) ==
    \E files \in UiBatches :
        /\ CanRun(r)
        /\ task[r].pc = "pending"
        /\ Len(collection) + TotalChunks(files) <= MaxColl
        /\ LET l == upload_loop(W, files, <<>>)
           IN /\ SetChat(l.w)
              /\ made' = l.w.made
        /\ Goto(r, [Pending EXCEPT !.pc = "reinitialize"])
        /\ UNCHANGED <<last, loaderVars, pureVars>>

\* POST /upload, after the loop: get_chatbot() and reinitialize_chain().
UploadReinitialize(r) ==
    \E llmOk \in BOOLEAN :
        /\ CanRun(r)
        /\ task[r].pc = "reinitialize"
        /\ LET g == get_chatbot(W, llmOk)
               w1 == IF g.raised THEN g.w ELSE reinitialize_chain(g.w)
           IN /\ SetChat(w1)
              /\ made' = w1.made
              /\ last' = Result("upload", "", "", <<>>, FALSE, g.raised, "", <<>>)
        /\ Finish(r)
        /\ UNCHANGED <<loaderVars, pureVars>>

NextRequests ==
    \E r \in Requests :
        \/ ChatBegin(r)
        \/ ChatInvoke(r)
        \/ ChatSave(r)
        \/ UploadBegin(r)
        \/ UploadReinitialize(r)

SpecRequests == InitRequests /\ [][NextRequests]_vars

\* The handler of r has begun and has not returned.
Midway(r) == task[r].pc # "pending"

\* C24 as the specification words it: while the handler of one request is between
\* two of its steps, the handler of another request can take a step.
C24_HandlersInterleave ==
    \A r \in Requests : \A s \in Requests \ {r} :
        Midway(r) /\ Len(memory) < 2 * MaxTurns => ENABLED ChatBegin(s)

\* C24, amended: the handlers of two requests sent at once run one after the other.
\* At most one handler is between two of its steps, it is the one the event loop
\* executes, and the memory a chat handler appends its turn to is the memory its
\* prompt was built from.
C24_HandlersSerialized ==
    /\ \A r \in Requests : Midway(r) => running = r
    /\ \A r \in Requests : \A s \in Requests \ {r} : ~(Midway(r) /\ Midway(s))
    /\ \A r \in Requests : task[r].pc \in {"invoke", "save"} => task[r].seen = memory

\* A chat handler is about to save its turn after another request was served, and
\* the other request is waiting.
C24_Witness ==
    /\ task[1].pc = "save"
    /\ task[2].pc = "pending"
    /\ last.op = "chat"
    /\ last.kind = "answered"
    /\ memory # <<>>

(***************************************************************************)
(* POST /chat with the session_id of the request                           *)
(***************************************************************************)

\* The session_id of a request: the default of ChatRequest, and another.
SessionIds == {"default", "other"}

ChatRequest == [question : Questions, session_id : SessionIds]

\* Mutant: a request under another session than the default has a memory of its own.
api_chat_per_session(w, request, llmOk, o) ==
    LET g == get_chatbot(w, llmOk)
    IN IF g.raised
       THEN [w |-> g.w, answer |-> "", source_documents |-> <<>>, llm |-> FALSE,
             raised |-> TRUE, kind |-> ""]
       ELSE IF request.session_id = "default"
       THEN chat(g.w, request.question, o)
       ELSE [chat([g.w EXCEPT !.memory = <<>>], request.question, o)
                EXCEPT !.w.memory = g.w.memory]

\* The handler of POST /chat: get_chatbot(), chatbot.chat(request.question), and
\* the response made of the answer and the sources; an exception becomes HTTP 500.
api_chat(w, request, llmOk, o) ==
    LET g == get_chatbot(w, llmOk)
    IN IF g.raised
       THEN [w |-> g.w, answer |-> "", source_documents |-> <<>>, llm |-> FALSE,
             raised |-> TRUE, kind |-> ""]
       ELSE chat(g.w, request.question, o)

\* What the chain of the chatbot that serves the request can do.
PossibleFor(w, llmOk, o) ==
    LET g == get_chatbot(w, llmOk)
    IN g.raised \/ Possible(IF g.w.chain.id = 0 THEN _initialize_chain(g.w) ELSE g.w, o)

\* POST /chat {question, session_id}
ApiChatSession ==
    \E request \in ChatRequest, llmOk \in BOOLEAN, o \in Outcomes :
        /\ Len(memory) < 2 * MaxTurns
        /\ PossibleFor(W, llmOk, o)
        /\ LET r == api_chat(W, request, llmOk, o)
           IN /\ Apply(r.w)
              /\ last' = [Result("chat", request.question, r.answer, r.source_documents,
                                  r.llm, r.raised, r.kind, <<>>)
                              EXCEPT !.input = <<request.session_id>>]

NextSessions ==
    \/ ApiChatSession
    \/ ApiHistory
    \/ ApiClear
    \/ AddDocuments

SpecSessions == Init /\ [][NextSessions]_vars

\* C28: the session_id of a POST /chat request has no effect. Whatever a chat
\* request did, the same request under any other session_id, from the same state
\* and with the same behaviour of the LLM, gives the same answer and sources and
\* leaves the same state, memory and history; an answered turn is appended to the
\* one history whatever its session_id.
C28_SessionIdIgnored ==
    [][last'.op = "chat"
        => /\ \E llmOk \in BOOLEAN, o \in Outcomes :
                /\ PossibleFor(W, llmOk, o)
                /\ \A sid \in SessionIds :
                      LET r == api_chat(W, [question |-> last'.question,
                                            session_id |-> sid], llmOk, o)
                      IN /\ r.w = W'
                         /\ r.answer = last'.answer
                         /\ r.source_documents = last'.sources
                         /\ r.raised = last'.raised
                         /\ get_chat_history(r.w) = get_chat_history(W)'
           /\ IsPrefix(memory, memory')]_vars

\* A request under another session_id answered with the turn of an earlier request
\* in its history.
C28_Witness ==
    /\ last.op = "chat" /\ last.kind = "answered"
    /\ last.input = <<"other">>
    /\ last.before = 2
    /\ Len(get_chat_history(W)) = 4

====
